---- MODULE Spec2Model ----
(***************************************************************************)
(* The Streamlit dashboard of AI Doc Gen (src/app.py) as a state machine.  *)
(*                                                                         *)
(* One user session is modelled.  A script run is main(): it routes to one *)
(* page function.  A run whose action button is pressed with an existing   *)
(* path is split where the controller blocks in asyncio.run(...): the      *)
(* *_press action runs the controller up to the call, the *_resume action  *)
(* is the completion of the call (return or exception) followed by the     *)
(* rest of the controller.  A run without a press is a *_rerun action.     *)
(*                                                                         *)
(* The handlers and the filesystem are the environment: a handler call     *)
(* returns or raises an Exception, and what the controller finds on disk   *)
(* when it looks (exists / glob / is_file / is_dir / read_text) is chosen  *)
(* nondeterministically and recorded in fs.                                *)
(***************************************************************************)
EXTENDS Integers, Sequences, FiniteSets, TLC

(* ------------------------------ bounds -------------------------------- *)

\* number of existing directories the user can name
NumRepos == 2
\* number of markdown file names under <repo>/.ai/docs
NumFiles == 2
\* number of markdown file names inside a rules directory
NumRuleFiles == 1
\* longest README.md content, in characters
MaxLen == 2

(* --------------------------- the environment --------------------------- *)

Repos == 1..NumRepos
\* a path that does not exist
NoPath == 0
Paths == Repos \cup {NoPath}
MdNames == 1..NumFiles
RuleFiles == 1..NumRuleFiles

\* characters of a file: an ordinary one, carriage return, line feed
Chars == {"x", "CR", "LF"}

RECURSIVE SeqsUpTo(_, _)
SeqsUpTo(S, n) ==
    IF n = 0 THEN {<<>>}
    ELSE LET shorter == SeqsUpTo(S, n - 1)
         IN shorter \cup {Append(s, x) : s \in {t \in shorter : Len(t) = n - 1}, x \in S}

Texts == SeqsUpTo(Chars, MaxLen)

Range(s) == {s[i] : i \in 1..Len(s)}

\* the orders in which a directory listing can yield the names of set S
Orders(S) == {s \in SeqsUpTo(S, Cardinality(S)) : Len(s) = Cardinality(S) /\ Range(s) = S}

\* what is found at a path: nothing, a readable text file with its stored
\* characters, a file read_text() cannot decode ("bad"), or a directory with
\* the *.md names glob yields (in its order) and those of them that are
\* unreadable
Node(kind, text, kids, badkids) ==
    [kind |-> kind, text |-> text, kids |-> kids, badkids |-> badkids]
Absent == Node("absent", <<>>, <<>>, {})
BadFile == Node("bad", <<>>, <<>>, {})
TextFile(t) == Node("file", t, <<>>, {})
Dir(kids, badkids) == Node("dir", <<>>, kids, badkids)

ReadmeNodes == {Absent, BadFile, Dir(<<>>, {})} \cup {TextFile(t) : t \in Texts}

\* CLAUDE.md and AGENTS.md: nothing, a file (readable or not) or a directory
\* without markdown files; .cursor/rules: any of these, or a directory with
\* markdown files
FileNodes == {Absent, BadFile, TextFile(<<>>), Dir(<<>>, {})}
RuleDirs ==
    UNION {{Dir(o, b) : o \in Orders(S), b \in SUBSET S} : S \in SUBSET RuleFiles}
RuleNodes == FileNodes \cup RuleDirs

Artifacts == <<"CLAUDE.md", "AGENTS.md", "Cursor Rules">>
ArtifactNames == Range(Artifacts)

ArtifactStates ==
    {[a \in ArtifactNames |-> IF a = "Cursor Rules" THEN r ELSE IF a = "CLAUDE.md" THEN c ELSE g] :
        c \in FileNodes, g \in FileNodes, r \in RuleNodes}

\* the part of the disk a run looked at
FS0 ==
    [path_found |-> TRUE, repo |-> NoPath, docs_exists |-> FALSE, md |-> {},
     bad |-> {}, readme |-> Absent, art |-> [a \in ArtifactNames |-> Absent]]

(* ------------------------------ the UI --------------------------------- *)

\* one element written to the page (or one logging attempt), in order
Ev(k, a, r, n, c) == [k |-> k, a |-> a, r |-> r, n |-> n, c |-> c]
E0(k) == Ev(k, "", 0, 0, <<>>)
EA(k, a) == Ev(k, a, 0, 0, <<>>)

VARIABLES
    analysis_running,   \* st.session_state.analysis_running
    analysis_complete,  \* st.session_state.analysis_complete
    generated_files,    \* st.session_state.generated_files: list of <<repo, name>>
    pc,                 \* "ui": waiting for the user; "handler": inside asyncio.run
    page,               \* page of the current / latest script run
    pressed,            \* the latest run is one with the action button pressed
    form,               \* <<form values>> of the press being served, else << >>
    config_obj,         \* <<configuration object>> alive during the call, else << >>
    built,              \* configuration objects constructed in the latest run
    calls,              \* handler.handle() invocations started in the latest run
    active,             \* handler invocations in progress
    result,             \* latest run's handler call: "none", "returned", "raised"
    last_analyze,       \* latest AnalyzeHandler invocation: "none", "running", "returned", "raised"
    fs,                 \* what the latest run found on disk
    out,                \* what the latest run wrote to the page, in order
    raised              \* the latest run's page function terminated by raising

session == <<analysis_running, analysis_complete, generated_files>>
vars ==
    <<analysis_running, analysis_complete, generated_files, pc, page, pressed,
      form, config_obj, built, calls, active, result, last_analyze,
      fs, out, raised>>

(* ----------------------------- pure parts ------------------------------ *)

\* Path(repo_path).exists()
path_exists_unchecked(p) == TRUE
path_exists(p) == p \in Repos

\* Path.read_text(): text mode with universal newlines, "\r\n" and "\r"
\* both come back as "\n"
RECURSIVE read_text(_)
read_text(b) ==
    IF b = <<>> THEN <<>>
    ELSE IF b[1] = "CR"
         THEN IF Len(b) >= 2 /\ b[2] = "LF"
              THEN <<"LF">> \o read_text(SubSeq(b, 3, Len(b)))
              ELSE <<"LF">> \o read_text(Tail(b))
         ELSE <<b[1]>> \o read_text(Tail(b))

\* flag j of option pattern i (pattern 0 is the form's defaults: all off)
Bit(j, i) == i > 0 /\ (j \div (2 ^ (i - 1))) % 2 = 1

AnalyzeForms ==
    {[repo_path |-> p, max_workers |-> w[2],
      exclude_structure |-> Bit(1, w[1]), exclude_dependencies |-> Bit(2, w[1]),
      exclude_data_flow |-> Bit(3, w[1]), exclude_request_flow |-> Bit(4, w[1]),
      exclude_api |-> Bit(5, w[1])] :
        p \in Paths, w \in {<<0, 0>>, <<1, 20>>, <<2, 4>>, <<3, 1>>}}

AnalyzeHandlerConfig_stateful(f) ==
    [repo_path |-> f.repo_path,
     exclude_code_structure |-> f.exclude_structure,
     exclude_dependencies |-> f.exclude_dependencies,
     exclude_data_flow |-> f.exclude_data_flow,
     exclude_request_flow |-> f.exclude_request_flow,
     exclude_api_analysis |-> f.exclude_api,
     max_workers |-> IF analysis_complete THEN 0 ELSE f.max_workers]
AnalyzeHandlerConfig(f) ==
    [repo_path |-> f.repo_path,
     exclude_code_structure |-> f.exclude_structure,
     exclude_dependencies |-> f.exclude_dependencies,
     exclude_data_flow |-> f.exclude_data_flow,
     exclude_request_flow |-> f.exclude_request_flow,
     exclude_api_analysis |-> f.exclude_api,
     max_workers |-> f.max_workers]

ReadmeForms ==
    {[repo_path |-> p, use_existing |-> Bit(1, i),
      exclude_overview |-> Bit(2, i), exclude_toc |-> Bit(3, i),
      exclude_architecture |-> Bit(4, i), exclude_c4 |-> Bit(5, i),
      exclude_structure |-> Bit(6, i), exclude_dependencies |-> Bit(7, i),
      exclude_api |-> Bit(8, i), exclude_dev_notes |-> Bit(9, i),
      exclude_issues |-> Bit(10, i)] : p \in Paths, i \in 0..4}

ReadmeHandlerConfig(f) ==
    [repo_path |-> f.repo_path,
     use_existing_readme |-> f.use_existing,
     exclude_project_overview |-> f.exclude_overview,
     exclude_table_of_contents |-> f.exclude_toc,
     exclude_architecture |-> f.exclude_architecture,
     exclude_c4_model |-> f.exclude_c4,
     exclude_repository_structure |-> f.exclude_structure,
     exclude_dependencies_and_integration |-> f.exclude_dependencies,
     exclude_api_documentation |-> f.exclude_api,
     exclude_development_notes |-> f.exclude_dev_notes,
     exclude_known_issues_and_limitations |-> f.exclude_issues,
     exclude_additional_documentation |-> FALSE]

AIRulesForms ==
    {[repo_path |-> p, skip_claude |-> Bit(1, w[1]), skip_agents |-> Bit(2, w[1]),
      skip_cursor |-> Bit(3, w[1]), detail_level |-> w[2],
      max_claude_lines |-> w[3], max_agents_lines |-> w[4]] :
        p \in Paths,
        w \in {<<0, "standard", 500, 150>>, <<1, "minimal", 100, 500>>,
               <<2, "comprehensive", 2000, 50>>}}

AIRulesHandlerConfig(f) ==
    [repo_path |-> f.repo_path,
     skip_existing_claude_md |-> f.skip_claude,
     skip_existing_agents_md |-> f.skip_agents,
     skip_existing_cursor_rules |-> f.skip_cursor,
     detail_level |-> f.detail_level,
     max_claude_lines |-> f.max_claude_lines,
     max_agents_lines |-> f.max_agents_lines]

\* one handler is built and its handle() awaited once
run_analysis_retry(n) == n + 2
run_analysis(n) == n + 1
run_readme_generation(n) == n + 1
run_ai_rules_generation(n) == n + 1

\* try: Logger.error(...) except: pass
log_error_unguarded(fails) ==
    [out |-> <<EA("log", IF fails THEN "raised" ELSE "ok")>>, raised |-> fails]
log_error(fails) ==
    [out |-> <<EA("log", IF fails THEN "raised" ELSE "ok")>>, raised |-> FALSE]

\* the body of "except Exception as e": st.error(error_msg), then the log
except_block(fails) ==
    LET l == log_error(fails)
    IN [out |-> <<E0("error_failed")>> \o l.out, raised |-> l.raised]

\* "for file_path in generated_files": the expander of each file, its
\* read_text(), markdown and download button; read_text() raising ends it
RECURSIVE show_files(_, _)
show_files(files, bad) ==
    IF files = <<>> THEN [out |-> <<>>, raised |-> FALSE]
    ELSE LET f == Head(files)
             x == Ev("expander", "", f[1], f[2], <<>>)
         IN IF f \in bad THEN [out |-> <<x>>, raised |-> TRUE]
            ELSE LET rest == show_files(Tail(files), bad)
                 IN [out |-> <<x, Ev("markdown", "", f[1], f[2], <<>>),
                               Ev("download", "", f[1], f[2], <<>>)>> \o rest.out,
                     raised |-> rest.raised]

\* "Display results if analysis is complete"
display_results_unguarded(complete, files, bad) ==
    IF files # <<>>
    THEN LET s == show_files(files, bad)
         IN [out |-> <<E0("results_header")>> \o s.out, raised |-> s.raised]
    ELSE [out |-> <<>>, raised |-> FALSE]
display_results(complete, files, bad) ==
    IF complete /\ files # <<>>
    THEN LET s == show_files(files, bad)
         IN [out |-> <<E0("results_header")>> \o s.out, raised |-> s.raised]
    ELSE [out |-> <<>>, raised |-> FALSE]

\* session_state.analysis_running as the except block leaves it
except_running_kept(r) == r
except_running(r) == FALSE

(* ------------------------------- Init ---------------------------------- *)

\* init_session_state() and the first run of main(): the Analysis page
Init ==
    /\ analysis_running = FALSE
    /\ analysis_complete = FALSE
    /\ generated_files = <<>>
    /\ pc = "ui"
    /\ page = "Analysis"
    /\ pressed = FALSE
    /\ form = <<>>
    /\ config_obj = <<>>
    /\ built = 0
    /\ calls = 0
    /\ active = 0
    /\ result = "none"
    /\ last_analyze = "none"
    /\ fs = FS0
    /\ out = <<>>
    /\ raised = FALSE

(* --------------------------- Analysis page ----------------------------- *)

\* "Start Analysis" pressed: the path check, the flags, the configuration
\* object, and into asyncio.run(run_analysis(...))
analyze_page_press(f) ==
    /\ pc = "ui"
    /\ page' = "Analysis"
    /\ pressed' = TRUE
    /\ result' = "none"
    /\ fs' = [FS0 EXCEPT !.path_found = f.repo_path \in Repos]
    /\ raised' = FALSE
    /\ IF ~path_exists(f.repo_path)
       THEN /\ out' = <<E0("error_path")>>
            /\ pc' = "ui"
            /\ built' = 0
            /\ calls' = 0
            /\ form' = <<>>
            /\ config_obj' = <<>>
            /\ UNCHANGED <<session, active, last_analyze>>
       ELSE /\ analysis_running' = TRUE
            /\ analysis_complete' = FALSE
            /\ UNCHANGED generated_files
            /\ form' = <<f>>
            /\ config_obj' = <<AnalyzeHandlerConfig(f)>>
            /\ built' = 1
            /\ calls' = run_analysis(0)
            /\ active' = active + 1
            /\ last_analyze' = "running"
            /\ out' = <<>>
            /\ pc' = "handler"

\* "Find generated files": docs_path.exists() answered d, glob("*.md")
\* yielding the names o
scan_docs(d, o) ==
    IF d THEN [i \in 1..Len(o) |-> <<form[1].repo_path, o[i]>>] ELSE generated_files

\* the call returned: flags, the scan of <repo>/.ai/docs, st.success, then
\* the results block
analyze_returned(d, o, bad) ==
    LET files == scan_docs(d, o)
        shown == display_results(TRUE, files, bad)
    IN /\ analysis_running' = FALSE
       /\ analysis_complete' = TRUE
       /\ generated_files' = files
       /\ fs' = [FS0 EXCEPT !.path_found = fs.path_found, !.repo = form[1].repo_path,
                          !.docs_exists = d, !.md = Range(o), !.bad = bad]
       /\ out' = <<E0("success")>> \o shown.out
       /\ raised' = shown.raised
       /\ result' = "returned"
       /\ last_analyze' = "returned"

\* the call raised: the except block, then the results block
analyze_failed(logfails) ==
    LET e == except_block(logfails)
        shown == display_results(analysis_complete, generated_files, {})
    IN /\ analysis_running' = except_running(analysis_running)
       /\ UNCHANGED <<analysis_complete, generated_files>>
       /\ fs' = [FS0 EXCEPT !.path_found = fs.path_found, !.repo = form[1].repo_path]
       /\ out' = IF e.raised THEN e.out ELSE e.out \o shown.out
       /\ raised' = (e.raised \/ shown.raised)
       /\ result' = "raised"
       /\ last_analyze' = "raised"

analyze_page_resume ==
    /\ pc = "handler"
    /\ page = "Analysis"
    /\ \/ \E d \in BOOLEAN, S \in SUBSET MdNames :
            \E o \in Orders(IF d THEN S ELSE {}) :
              \E bad \in SUBSET Range(scan_docs(d, o)) :
                 (d \/ S = {}) /\ analyze_returned(d, o, bad)
       \/ \E logfails \in BOOLEAN : analyze_failed(logfails)
    /\ pc' = "ui"
    /\ active' = active - 1
    /\ form' = <<>>
    /\ config_obj' = <<>>
    /\ UNCHANGED <<page, pressed, built, calls>>

\* a run of the Analysis page without a press: only the results block
analyze_page_rerun ==
    /\ pc = "ui"
    /\ \E bad \in SUBSET Range(generated_files) :
         LET shown == display_results(analysis_complete, generated_files, bad)
         IN /\ (analysis_complete \/ bad = {})
            /\ fs' = [FS0 EXCEPT !.bad = bad]
            /\ out' = shown.out
            /\ raised' = shown.raised
    /\ page' = "Analysis"
    /\ pressed' = FALSE
    /\ built' = 0
    /\ calls' = 0
    /\ result' = "none"
    /\ UNCHANGED <<session, pc, form, config_obj, active, last_analyze>>

(* ---------------------------- README page ------------------------------ *)

\* "Generate README" pressed: the path check, the configuration object, and
\* into asyncio.run(run_readme_generation(...))
readme_page_press(f) ==
    /\ pc = "ui"
    /\ page' = "README"
    /\ pressed' = TRUE
    /\ result' = "none"
    /\ fs' = [FS0 EXCEPT !.path_found = f.repo_path \in Repos]
    /\ raised' = FALSE
    /\ UNCHANGED <<session, last_analyze>>
    /\ IF ~path_exists(f.repo_path)
       THEN /\ out' = <<E0("error_path")>>
            /\ pc' = "ui"
            /\ built' = 0
            /\ calls' = 0
            /\ form' = <<>>
            /\ config_obj' = <<>>
            /\ UNCHANGED active
       ELSE /\ form' = <<f>>
            /\ config_obj' = <<ReadmeHandlerConfig(f)>>
            /\ built' = 1
            /\ calls' = run_readme_generation(0)
            /\ active' = active + 1
            /\ out' = <<>>
            /\ pc' = "handler"

\* "Display generated README": exists(), the header, read_text(), markdown
\* and the download button; raised when read_text() raises
show_readme(node) ==
    IF node.kind = "absent" THEN [out |-> <<>>, raised |-> FALSE]
    ELSE IF node.kind = "file"
         THEN LET content == read_text(node.text)
              IN [out |-> <<EA("header", "README.md"),
                            Ev("markdown", "README.md", 0, 0, content),
                            Ev("download", "README.md", 0, 0, content)>>,
                  raised |-> FALSE]
         ELSE [out |-> <<EA("header", "README.md")>>, raised |-> TRUE]

\* the rest of the try block once the call returned, and the except block
\* when something in it raised
readme_returned(node, logfails) ==
    LET shown == show_readme(node)
        e == except_block(logfails)
    IN /\ fs' = [FS0 EXCEPT !.path_found = fs.path_found, !.readme = node]
       /\ out' = <<E0("success")>> \o shown.out
                    \o (IF shown.raised THEN e.out ELSE <<>>)
       /\ raised' = (shown.raised /\ e.raised)
       /\ result' = "returned"

readme_failed(logfails) ==
    LET e == except_block(logfails)
    IN /\ fs' = [FS0 EXCEPT !.path_found = fs.path_found]
       /\ out' = e.out
       /\ raised' = e.raised
       /\ result' = "raised"

readme_page_resume ==
    /\ pc = "handler"
    /\ page = "README"
    /\ \/ \E node \in ReadmeNodes, logfails \in BOOLEAN :
            /\ (show_readme(node).raised \/ ~logfails)
            /\ readme_returned(node, logfails)
       \/ \E logfails \in BOOLEAN : readme_failed(logfails)
    /\ pc' = "ui"
    /\ active' = active - 1
    /\ form' = <<>>
    /\ config_obj' = <<>>
    /\ UNCHANGED <<session, last_analyze, page, pressed, built, calls>>

\* a run of the README page without a press: the form only
readme_page_rerun ==
    /\ pc = "ui"
    /\ page' = "README"
    /\ pressed' = FALSE
    /\ built' = 0
    /\ calls' = 0
    /\ result' = "none"
    /\ fs' = FS0
    /\ out' = <<>>
    /\ raised' = FALSE
    /\ UNCHANGED <<session, pc, form, config_obj, active, last_analyze>>

(* --------------------------- AI Rules page ----------------------------- *)

\* "Generate AI Rules" pressed: the path check, the configuration object,
\* and into asyncio.run(run_ai_rules_generation(...))
ai_rules_page_press(f) ==
    /\ pc = "ui"
    /\ page' = "AI Rules"
    /\ pressed' = TRUE
    /\ result' = "none"
    /\ fs' = [FS0 EXCEPT !.path_found = f.repo_path \in Repos]
    /\ raised' = FALSE
    /\ UNCHANGED <<session, last_analyze>>
    /\ IF ~path_exists(f.repo_path)
       THEN /\ out' = <<E0("error_path")>>
            /\ pc' = "ui"
            /\ built' = 0
            /\ calls' = 0
            /\ form' = <<>>
            /\ config_obj' = <<>>
            /\ UNCHANGED active
       ELSE /\ form' = <<f>>
            /\ config_obj' = <<AIRulesHandlerConfig(f)>>
            /\ built' = 1
            /\ calls' = run_ai_rules_generation(0)
            /\ active' = active + 1
            /\ out' = <<>>
            /\ pc' = "handler"

\* "for rule_file in file_path.glob('*.md')": the name, then the text
RECURSIVE show_rule_files(_, _, _)
show_rule_files(a, kids, badkids) ==
    IF kids = <<>> THEN [out |-> <<>>, raised |-> FALSE]
    ELSE LET k == Head(kids)
             name == Ev("rule_name", a, 0, k, <<>>)
         IN IF k \in badkids THEN [out |-> <<name>>, raised |-> TRUE]
            ELSE LET rest == show_rule_files(a, Tail(kids), badkids)
                 IN [out |-> <<name, Ev("rule_code", a, 0, k, <<>>)>> \o rest.out,
                     raised |-> rest.raised]

\* one entry of files_to_display
show_artifact(a, node) ==
    IF node.kind = "absent" THEN [out |-> <<>>, raised |-> FALSE]
    ELSE IF node.kind = "bad"
         THEN [out |-> <<EA("expander", a)>>, raised |-> TRUE]
    ELSE IF node.kind = "dir"
         THEN LET rules == show_rule_files(a, node.kids, node.badkids)
              IN [out |-> <<EA("expander", a), EA("info_dir", a)>> \o rules.out,
                  raised |-> rules.raised]
    ELSE [out |-> <<EA("expander", a),
                    Ev("markdown", a, 0, 0, read_text(node.text)),
                    Ev("download", a, 0, 0, read_text(node.text))>>,
          raised |-> FALSE]

\* "for file_path, display_name in files_to_display"
RECURSIVE show_artifacts(_, _)
show_artifacts(names, art) ==
    IF names = <<>> THEN [out |-> <<>>, raised |-> FALSE]
    ELSE LET one == show_artifact(Head(names), art[Head(names)])
         IN IF one.raised THEN one
            ELSE LET rest == show_artifacts(Tail(names), art)
                 IN [out |-> one.out \o rest.out, raised |-> rest.raised]

ai_rules_returned(art, logfails) ==
    LET shown == show_artifacts(Artifacts, art)
        e == except_block(logfails)
    IN /\ fs' = [FS0 EXCEPT !.path_found = fs.path_found, !.art = art]
       /\ out' = <<E0("success"), E0("files_header")>> \o shown.out
                    \o (IF shown.raised THEN e.out ELSE <<>>)
       /\ raised' = (shown.raised /\ e.raised)
       /\ result' = "returned"

ai_rules_failed(logfails) ==
    LET e == except_block(logfails)
    IN /\ fs' = [FS0 EXCEPT !.path_found = fs.path_found]
       /\ out' = e.out
       /\ raised' = e.raised
       /\ result' = "raised"

ai_rules_page_resume ==
    /\ pc = "handler"
    /\ page = "AI Rules"
    /\ \/ \E art \in ArtifactStates, logfails \in BOOLEAN :
            /\ (show_artifacts(Artifacts, art).raised \/ ~logfails)
            /\ ai_rules_returned(art, logfails)
       \/ \E logfails \in BOOLEAN : ai_rules_failed(logfails)
    /\ pc' = "ui"
    /\ active' = active - 1
    /\ form' = <<>>
    /\ config_obj' = <<>>
    /\ UNCHANGED <<session, last_analyze, page, pressed, built, calls>>

\* a run of the AI Rules page without a press: the form only
ai_rules_page_rerun ==
    /\ pc = "ui"
    /\ page' = "AI Rules"
    /\ pressed' = FALSE
    /\ built' = 0
    /\ calls' = 0
    /\ result' = "none"
    /\ fs' = FS0
    /\ out' = <<>>
    /\ raised' = FALSE
    /\ UNCHANGED <<session, pc, form, config_obj, active, last_analyze>>

(* ----------------------------- About page ------------------------------ *)

about_page ==
    /\ pc = "ui"
    /\ page' = "About"
    /\ pressed' = FALSE
    /\ built' = 0
    /\ calls' = 0
    /\ result' = "none"
    /\ fs' = FS0
    /\ out' = <<>>
    /\ raised' = FALSE
    /\ UNCHANGED <<session, pc, form, config_obj, active, last_analyze>>

(* ------------------------------ routing -------------------------------- *)

\* one step of a script run: main() routes to the selected page
main ==
    \/ \E f \in AnalyzeForms : analyze_page_press(f)
    \/ analyze_page_resume
    \/ analyze_page_rerun
    \/ \E f \in ReadmeForms : readme_page_press(f)
    \/ readme_page_resume
    \/ readme_page_rerun
    \/ \E f \in AIRulesForms : ai_rules_page_press(f)
    \/ ai_rules_page_resume
    \/ ai_rules_page_rerun
    \/ about_page

Next == main

Spec == Init /\ [][Next]_vars

(* ------------------------------ properties ------------------------------ *)

Idx == 1..Len(out)
Has(k) == \E i \in Idx : out[i].k = k
HasFor(k, a) == \E i \in Idx : out[i].k = k /\ out[i].a = a
\* a press whose handler call has returned and the controller has finished
Returned(p) == page = p /\ pressed /\ pc = "ui" /\ result = "returned"

\* C1: on each page, a press with a path that does not exist shows the path
\* error and nothing else, builds no configuration object and starts no
\* handler call.
C1_NonexistentPathRejected ==
    (pressed /\ ~fs.path_found) =>
        /\ pc = "ui"
        /\ out = <<E0("error_path")>>
        /\ built = 0 /\ config_obj = <<>>
        /\ calls = 0 /\ active = 0 /\ result = "none"
        /\ ~raised

C1_Witness ==
    /\ pressed /\ ~fs.path_found /\ page = "Analysis"
    /\ analysis_complete /\ generated_files # <<>>

\* C2: no page function ever terminates by raising, and a handler call
\* that raised ends in the error message.
C2_ControllerNeverRaises ==
    /\ ~raised
    /\ (pc = "ui" /\ result = "raised") => Has("error_failed")

\* C3: analysis_running is false whenever control is back with the UI, and
\* it is true only while the Analyze handler call is in progress.
C3_RunningOnlyDuringCall ==
    /\ pc = "ui" => ~analysis_running
    /\ analysis_running => (pc = "handler" /\ page = "Analysis" /\ active = 1)

\* the handler returned and the results block raised afterwards
C3_Witness ==
    /\ page = "Analysis" /\ pressed /\ pc = "ui"
    /\ result = "returned" /\ raised /\ ~analysis_running

\* C4: after an Analyze run that returned (and raised nowhere), the files
\* displayed are exactly the markdown files found under <repo>/.ai/docs,
\* none when that directory does not exist.
C4_DisplayedEqualsDocs ==
    (Returned("Analysis") /\ ~raised) =>
        {<<out[i].r, out[i].n>> : i \in {j \in Idx : out[j].k = "expander"}}
            = {<<fs.repo, n>> : n \in fs.md}

\* C5: after a Readme run that returned, README.md is displayed and offered
\* for download iff it exists, and what is displayed is its content.
C5_ReadmeShownIffExists ==
    Returned("README") =>
        /\ Has("markdown") <=> fs.readme.kind # "absent"
        /\ Has("download") <=> fs.readme.kind # "absent"
        /\ \A i \in Idx :
             out[i].k \in {"markdown", "download"} => out[i].c = fs.readme.text

\* C6: after an AI Rules run that returned, each artifact is displayed iff
\* it exists; a directory lists every markdown file in it with its text, a
\* file shows its content and a download button.
C6_ArtifactsShownIffExist ==
    Returned("AI Rules") =>
        \A a \in ArtifactNames :
            LET node == fs.art[a]
            IN /\ HasFor("expander", a) <=> node.kind # "absent"
               /\ node.kind = "dir" =>
                    \A k \in Range(node.kids) :
                        \E i \in Idx : out[i] = Ev("rule_code", a, 0, k, <<>>)
               /\ node.kind \in {"file", "bad"} =>
                    HasFor("markdown", a) /\ HasFor("download", a)

\* C7: the configuration object handed to a handler is determined field by
\* field by the submitted form values alone, whatever the session flags and
\* the earlier runs; the Readme one has exclude_additional_documentation
\* off.
C7_ConfigFromFormOnly ==
    /\ pc = "ui" => config_obj = <<>>
    /\ pc = "handler" =>
         LET f == form[1]
             c == config_obj[1]
         IN /\ Len(config_obj) = 1
            /\ c.repo_path = f.repo_path
            /\ page = "Analysis" =>
                 c = [repo_path |-> f.repo_path,
                      exclude_code_structure |-> f.exclude_structure,
                      exclude_dependencies |-> f.exclude_dependencies,
                      exclude_data_flow |-> f.exclude_data_flow,
                      exclude_request_flow |-> f.exclude_request_flow,
                      exclude_api_analysis |-> f.exclude_api,
                      max_workers |-> f.max_workers]
            /\ page = "README" =>
                 c = [repo_path |-> f.repo_path,
                      use_existing_readme |-> f.use_existing,
                      exclude_project_overview |-> f.exclude_overview,
                      exclude_table_of_contents |-> f.exclude_toc,
                      exclude_architecture |-> f.exclude_architecture,
                      exclude_c4_model |-> f.exclude_c4,
                      exclude_repository_structure |-> f.exclude_structure,
                      exclude_dependencies_and_integration |-> f.exclude_dependencies,
                      exclude_api_documentation |-> f.exclude_api,
                      exclude_development_notes |-> f.exclude_dev_notes,
                      exclude_known_issues_and_limitations |-> f.exclude_issues,
                      exclude_additional_documentation |-> FALSE]
            /\ page = "AI Rules" =>
                 c = [repo_path |-> f.repo_path,
                      skip_existing_claude_md |-> f.skip_claude,
                      skip_existing_agents_md |-> f.skip_agents,
                      skip_existing_cursor_rules |-> f.skip_cursor,
                      detail_level |-> f.detail_level,
                      max_claude_lines |-> f.max_claude_lines,
                      max_agents_lines |-> f.max_agents_lines]

\* a non-default Analyze submission in a session that already completed a
\* run with files
C7_Witness ==
    /\ pc = "handler" /\ page = "Analysis"
    /\ generated_files # <<>> /\ form[1].max_workers = 20

\* C8: a press with an existing path starts exactly one handler call, which
\* has completed when control is back with the UI; it is not started again
\* after an exception, and at most one call is in progress.
C8_OneBlockingCallPerPress ==
    /\ active \in {0, 1}
    /\ pc = "ui" <=> active = 0
    /\ calls = (IF pressed /\ fs.path_found THEN 1 ELSE 0)
    /\ (pc = "ui" /\ pressed /\ fs.path_found) => result \in {"returned", "raised"}
    /\ pc = "handler" => (pressed /\ result = "none")

C8_Witness ==
    pc = "ui" /\ pressed /\ result = "raised" /\ calls = 1 /\ active = 0

\* C9: when the handler call raised, the error message is written first and
\* the logging attempt comes after it; a logging failure is swallowed: the
\* message stays, nothing propagates, analysis_running is false.
C9_ErrorShownThenLogged ==
    (pc = "ui" /\ result = "raised") =>
        /\ Len(out) >= 2
        /\ out[1] = E0("error_failed")
        /\ out[2].k = "log"
        /\ \A i \in Idx : out[i].k = "log" => i > 1
        /\ ~raised
        /\ ~analysis_running

\* the logging call itself failed, on the Analysis page
C9_Witness ==
    /\ pc = "ui" /\ result = "raised" /\ page = "Analysis"
    /\ Len(out) >= 2 /\ out[2] = EA("log", "raised")

C10_Flags ==
    /\ ~(analysis_running /\ analysis_complete)
    /\ analysis_complete <=> last_analyze = "returned"
    /\ (page = "Analysis" /\ last_analyze = "raised") =>
         \A i \in Idx : out[i].k \notin {"results_header", "expander", "markdown", "download"}

C10_Frame ==
    (page' # "Analysis" \/ (pressed' /\ ~fs'.path_found)) => UNCHANGED session

\* C10: the two flags are never both true; analysis_complete is true exactly
\* when the latest Analyze handler call returned; after a call that raised
\* the Analysis page displays no result files; a rejected submission and
\* every step on the README, AI Rules and About pages leave the flags and
\* generated_files unchanged.
C10_FlagsConsistent == [](C10_Flags) /\ [][C10_Frame]_vars

\* a failed run after an earlier one that left files
C10_Witness ==
    /\ page = "Analysis" /\ pc = "ui" /\ last_analyze = "raised"
    /\ generated_files # <<>>

====
